---- MODULE Spec2Model ----
(***************************************************************************)
(* Model of main.go: getRepositories pages through the organization's      *)
(* repository listing, then main fetches the latest workflow run of every  *)
(* repository and re-runs it.  The GitHub API is the environment: it holds *)
(* a fixed listing of uniquely named repositories, serves it in pages of   *)
(* the requested size, and may fail any single request.                    *)
(***************************************************************************)
EXTENDS Integers, Sequences, FiniteSets, TLC

VARIABLES org, pc, page, acc, repos, listErr, idx, latestRun, err, resp, out,
          listReqs, log

vars == <<org, pc, page, acc, repos, listErr, idx, latestRun, err, resp, out,
          listReqs, log>>

(* ------------------------------ bounds --------------------------------- *)
\* organizations have k*PerPage + d repositories, k <= MaxFullPages, |d| <= Slack
MaxFullPages == 2
Slack == 2
\* in organizations of at most MaxVaried repositories every request is answered
\* in every possible way; in larger ones each repository answers by a fixed
\* per-name pattern (no runs, a run, not found; re-run accepted or refused)
MaxVaried == 2
\* a runs response carries at most MaxRuns runs with ids 1..MaxRunId (the API
\* is not relied on to honour per_page=1)
MaxRuns == 2
MaxRunId == 2

(* --------------------------- program constants -------------------------- *)
PerPage == 100

(* ------------------------------ values ---------------------------------- *)
Nil == [kind |-> "nil"]
NoBody == [kind |-> "none"]
Malformed == [kind |-> "malformed"]
NetErr == [neterr |-> TRUE, status |-> 0, body |-> NoBody]
ZeroRun == [ID |-> 0, Status |-> "", Name |-> ""]

Min(a, b) == IF a < b THEN a ELSE b
CeilDiv(a, b) == (a + b - 1) \div b
Last(s) == s[Len(s)]

(* ------------------------- the API (environment) ------------------------ *)
RepoCounts ==
    {n \in 0..(MaxFullPages * PerPage + Slack) :
        \E k \in 0..MaxFullPages, d \in (0 - Slack)..Slack : n = k * PerPage + d}

Orders == {"asc", "desc"}

\* the organization's listing: n uniquely named repositories in the API's order
Listing(o) == [i \in 1..o.n |-> IF o.ord = "asc" THEN i ELSE o.n + 1 - i]

\* JSON of one repository / one run as the API serves it
RepoJSON(name) == [name |-> name, private |-> FALSE]
RunJSON(id) == [id |-> id, status |-> "completed", name |-> "CI", event |-> "push"]

\* the items of page p when perPage items per page are requested
PageOf(o, perPage, p) ==
    LET lo == (p - 1) * perPage + 1
        hi == Min(p * perPage, o.n)
    IN  [i \in 1..(IF hi >= lo THEN hi - lo + 1 ELSE 0) |->
            RepoJSON(Listing(o)[lo + i - 1])]

ListStatuses == {200, 204, 404, 500}
ListResponses(o, perPage, p) ==
    {NetErr}
    \cup {[neterr |-> FALSE, status |-> s, body |-> b] :
            s \in ListStatuses,
            b \in {[kind |-> "array", items |-> PageOf(o, perPage, p)], Malformed}}

RunSeqs ==
    UNION {[1..k -> {RunJSON(i) : i \in 1..MaxRunId}] : k \in 0..MaxRuns}

RunsResponses(o, name) ==
    IF o.n <= MaxVaried
    THEN {NetErr,
          [neterr |-> FALSE, status |-> 404, body |-> [kind |-> "text", text |-> "Not Found"]],
          [neterr |-> FALSE, status |-> 200, body |-> Malformed]}
         \cup {[neterr |-> FALSE, status |-> 200, body |-> [kind |-> "object", runs |-> rs]] :
                 rs \in RunSeqs}
    ELSE IF name % 3 = 0
         THEN {[neterr |-> FALSE, status |-> 200, body |-> [kind |-> "object", runs |-> <<>>]]}
    ELSE IF name % 3 = 1
         THEN {[neterr |-> FALSE, status |-> 200,
                body |-> [kind |-> "object", runs |-> <<RunJSON(MaxRunId + name)>>]]}
    ELSE {[neterr |-> FALSE, status |-> 404, body |-> [kind |-> "text", text |-> "Not Found"]]}

RerunStatuses == {200, 201, 202, 204, 403, 500}
RerunBodies == {[kind |-> "text", text |-> ""], [kind |-> "text", text |-> "msg"]}
RerunResponses(o, name) ==
    IF o.n <= MaxVaried
    THEN {NetErr} \cup {[neterr |-> FALSE, status |-> s, body |-> b] :
                          s \in RerunStatuses, b \in RerunBodies}
    ELSE IF name % 2 = 0
         THEN {[neterr |-> FALSE, status |-> 201, body |-> [kind |-> "text", text |-> ""]]}
    ELSE {[neterr |-> FALSE, status |-> 403, body |-> [kind |-> "text", text |-> "msg"]]}

\* what a runs response is, seen from the API's side
FetchOutcome(r) ==
    IF r.neterr \/ r.status < 200 \/ r.status >= 300 \/ r.body.kind # "object"
    THEN "error"
    ELSE IF Len(r.body.runs) = 0 THEN "empty" ELSE "run"
FirstRunId(r) == IF FetchOutcome(r) = "run" THEN r.body.runs[1].id ELSE 0

\* what a listing response is, seen from the API's side
ListOk(r) == ~r.neterr /\ r.status >= 200 /\ r.status < 300 /\ r.body.kind = "array"
ListCount(r) == IF ListOk(r) THEN Len(r.body.items) ELSE 0

(* ------------------------------ the code -------------------------------- *)
makeRequest(r) ==
    IF r.neterr
    THEN [data |-> NoBody, err |-> [kind |-> "transport"]]
    ELSE IF r.status < 200 \/ r.status >= 300
         THEN [data |-> NoBody, err |-> [kind |-> "http", status |-> r.status]]
         ELSE [data |-> r.body, err |-> Nil]

\* json.Unmarshal(data, &batch) with batch []Repository
UnmarshalRepos(data) ==
    IF data.kind = "array"
    THEN [batch |-> [i \in 1..Len(data.items) |-> [Name |-> data.items[i].name]],
          err |-> Nil]
    ELSE [batch |-> <<>>, err |-> [kind |-> "decode"]]

\* json.Unmarshal(data, &response) with response.WorkflowRuns []WorkflowRun
UnmarshalRuns(data) ==
    IF data.kind = "object"
    THEN [runs |-> [i \in 1..Len(data.runs) |->
                      [ID |-> data.runs[i].id, Status |-> data.runs[i].status,
                       Name |-> data.runs[i].name]],
          err |-> Nil]
    ELSE [runs |-> <<>>, err |-> [kind |-> "decode"]]

\* variant: the loop also stops after a page shorter than PerPage
GetRepositoriesStep_shortStop(a, p, r) ==
    LET m == makeRequest(r)
        u == UnmarshalRepos(m.data)
    IN  IF m.err # Nil
        THEN [ret |-> TRUE, result |-> <<>>, err |-> m.err, acc |-> a, page |-> p]
        ELSE IF u.err # Nil
        THEN [ret |-> TRUE, result |-> <<>>, err |-> u.err, acc |-> a, page |-> p]
        ELSE IF Len(u.batch) < PerPage
        THEN [ret |-> TRUE, result |-> a \o u.batch, err |-> Nil,
              acc |-> a \o u.batch, page |-> p]
        ELSE [ret |-> FALSE, result |-> <<>>, err |-> Nil,
              acc |-> a \o u.batch, page |-> p + 1]

\* variant: a failed page ends the loop like an empty page does
GetRepositoriesStep_partial(a, p, r) ==
    LET m == makeRequest(r)
        u == UnmarshalRepos(m.data)
    IN  IF m.err # Nil \/ u.err # Nil \/ Len(u.batch) = 0
        THEN [ret |-> TRUE, result |-> a, err |-> Nil, acc |-> a, page |-> p]
        ELSE [ret |-> FALSE, result |-> <<>>, err |-> Nil,
              acc |-> a \o u.batch, page |-> p + 1]

\* variant: the batch is put in front of the accumulated repositories
GetRepositoriesStep_prepend(a, p, r) ==
    LET m == makeRequest(r)
        u == UnmarshalRepos(m.data)
    IN  IF m.err # Nil
        THEN [ret |-> TRUE, result |-> <<>>, err |-> m.err, acc |-> a, page |-> p]
        ELSE IF u.err # Nil
        THEN [ret |-> TRUE, result |-> <<>>, err |-> u.err, acc |-> a, page |-> p]
        ELSE IF Len(u.batch) = 0
        THEN [ret |-> TRUE, result |-> a, err |-> Nil, acc |-> a, page |-> p]
        ELSE [ret |-> FALSE, result |-> <<>>, err |-> Nil,
              acc |-> u.batch \o a, page |-> p + 1]

\* variant: the page number advances by two
GetRepositoriesStep_skip(a, p, r) ==
    LET m == makeRequest(r)
        u == UnmarshalRepos(m.data)
    IN  IF m.err # Nil
        THEN [ret |-> TRUE, result |-> <<>>, err |-> m.err, acc |-> a, page |-> p]
        ELSE IF u.err # Nil
        THEN [ret |-> TRUE, result |-> <<>>, err |-> u.err, acc |-> a, page |-> p]
        ELSE IF Len(u.batch) = 0
        THEN [ret |-> TRUE, result |-> a, err |-> Nil, acc |-> a, page |-> p]
        ELSE [ret |-> FALSE, result |-> <<>>, err |-> Nil,
              acc |-> a \o u.batch, page |-> p + 2]

\* one iteration of the loop of getRepositories, given the response r
GetRepositoriesStep(a, p, r) ==
    LET m == makeRequest(r)
        u == UnmarshalRepos(m.data)
    IN  IF m.err # Nil
        THEN [ret |-> TRUE, result |-> <<>>, err |-> m.err, acc |-> a, page |-> p]
        ELSE IF u.err # Nil
        THEN [ret |-> TRUE, result |-> <<>>, err |-> u.err, acc |-> a, page |-> p]
        ELSE IF Len(u.batch) = 0
        THEN [ret |-> TRUE, result |-> a, err |-> Nil, acc |-> a, page |-> p]
        ELSE [ret |-> FALSE, result |-> <<>>, err |-> Nil,
              acc |-> a \o u.batch, page |-> p + 1]

\* variant: an empty workflow_runs array is not checked for
getLatestWorkflowRun_noEmptyCheck(repoName, r) ==
    LET m == makeRequest(r)
        u == UnmarshalRuns(m.data)
    IN  IF m.err # Nil THEN [run |-> ZeroRun, err |-> m.err]
        ELSE IF u.err # Nil THEN [run |-> ZeroRun, err |-> u.err]
        ELSE IF Len(u.runs) = 0 THEN [run |-> ZeroRun, err |-> Nil]
        ELSE [run |-> u.runs[1], err |-> Nil]

\* variant: the last run of the array is returned
getLatestWorkflowRun_last(repoName, r) ==
    LET m == makeRequest(r)
        u == UnmarshalRuns(m.data)
    IN  IF m.err # Nil THEN [run |-> ZeroRun, err |-> m.err]
        ELSE IF u.err # Nil THEN [run |-> ZeroRun, err |-> u.err]
        ELSE IF Len(u.runs) = 0
        THEN [run |-> ZeroRun, err |-> [kind |-> "noruns", repo |-> repoName]]
        ELSE [run |-> u.runs[Len(u.runs)], err |-> Nil]

getLatestWorkflowRun(repoName, r) ==
    LET m == makeRequest(r)
        u == UnmarshalRuns(m.data)
    IN  IF m.err # Nil THEN [run |-> ZeroRun, err |-> m.err]
        ELSE IF u.err # Nil THEN [run |-> ZeroRun, err |-> u.err]
        ELSE IF Len(u.runs) = 0
        THEN [run |-> ZeroRun, err |-> [kind |-> "noruns", repo |-> repoName]]
        ELSE [run |-> u.runs[1], err |-> Nil]

\* variant: every 2xx status counts as success
rerunWorkflow_any2xx(repoName, runID, r) ==
    IF r.neterr
    THEN [kind |-> "transport"]
    ELSE IF r.status < 200 \/ r.status >= 300
         THEN [kind |-> "http", status |-> r.status, body |-> r.body.text]
         ELSE Nil

rerunWorkflow(repoName, runID, r) ==
    IF r.neterr
    THEN [kind |-> "transport"]
    ELSE IF r.status # 201
         THEN [kind |-> "http", status |-> r.status, body |-> r.body.text]
         ELSE Nil

\* the range loop of main: where control goes after the iteration at index i
LoopNext(i, n) ==
    IF i < n THEN [pc |-> "fetch", idx |-> i + 1] ELSE [pc |-> "done", idx |-> i]

\* variant: a failed fetch is tried again
AfterFetch_retry(i, n, g) ==
    IF g.err # Nil THEN [pc |-> "fetch", idx |-> i] ELSE [pc |-> "rerun", idx |-> i]

\* variant: a failed fetch ends the loop
AfterFetch_abort(i, n, g) ==
    IF g.err # Nil THEN [pc |-> "done", idx |-> i] ELSE [pc |-> "rerun", idx |-> i]

\* main after getLatestWorkflowRun returned g: continue on error, else re-run
AfterFetch(i, n, g) ==
    IF g.err # Nil THEN LoopNext(i, n) ELSE [pc |-> "rerun", idx |-> i]

\* main after getRepositories returned: return on error, else enter the loop
AfterList(s) ==
    IF s.err # Nil THEN [pc |-> "done", idx |-> 0]
    ELSE IF Len(s.result) = 0 THEN [pc |-> "done", idx |-> 0]
    ELSE [pc |-> "fetch", idx |-> 1]

(* ------------------------------ behaviour ------------------------------- *)
Init ==
    /\ org \in [n : RepoCounts, ord : Orders]
    /\ pc = "list"
    /\ page = 1
    /\ acc = <<>>
    /\ repos = <<>>
    /\ listErr = Nil
    /\ idx = 0
    /\ latestRun = ZeroRun
    /\ err = Nil
    /\ resp = NetErr
    /\ out = ""
    /\ listReqs = <<>>
    /\ log = <<>>

\* one page request of getRepositories and, when it returns, main's reaction
ListPage ==
    /\ pc = "list"
    /\ \E r \in ListResponses(org, PerPage, page) :
         LET s == GetRepositoriesStep(acc, page, r)
             a == AfterList(s)
         IN  /\ resp' = r
             /\ listReqs' = Append(listReqs,
                    [page |-> page, perPage |-> PerPage, ok |-> ListOk(r), n |-> ListCount(r)])
             /\ acc' = s.acc
             /\ page' = s.page
             /\ IF s.ret
                THEN /\ repos' = s.result
                     /\ listErr' = s.err
                     /\ pc' = a.pc
                     /\ idx' = a.idx
                     /\ out' = IF s.err # Nil THEN "list_error" ELSE out
                ELSE UNCHANGED <<repos, listErr, pc, idx, out>>
    /\ UNCHANGED <<org, latestRun, err, log>>

\* main: getLatestWorkflowRun(repo.Name) for the repository at idx
FetchRun ==
    /\ pc = "fetch"
    /\ \E r \in RunsResponses(org, repos[idx].Name) :
         LET g == getLatestWorkflowRun(repos[idx].Name, r)
             a == AfterFetch(idx, Len(repos), g)
         IN  /\ resp' = r
             /\ log' = Append(log, [op |-> "runs", pos |-> idx, repo |-> repos[idx].Name,
                                    outcome |-> FetchOutcome(r), id |-> FirstRunId(r)])
             /\ latestRun' = g.run
             /\ err' = g.err
             /\ out' = IF g.err # Nil THEN "fetch_error" ELSE "rerunning"
             /\ pc' = a.pc
             /\ idx' = a.idx
    /\ UNCHANGED <<org, page, acc, repos, listErr, listReqs>>

\* main: rerunWorkflow(repo.Name, latestRun.ID) for the repository at idx
Rerun ==
    /\ pc = "rerun"
    /\ \E r \in RerunResponses(org, repos[idx].Name) :
         LET e == rerunWorkflow(repos[idx].Name, latestRun.ID, r)
             a == LoopNext(idx, Len(repos))
         IN  /\ resp' = r
             /\ log' = Append(log, [op |-> "rerun", pos |-> idx, repo |-> repos[idx].Name,
                                    outcome |-> "", id |-> latestRun.ID])
             /\ err' = e
             /\ out' = IF e # Nil THEN "rerun_failed" ELSE "rerun_ok"
             /\ pc' = a.pc
             /\ idx' = a.idx
    /\ UNCHANGED <<org, page, acc, repos, listErr, latestRun, listReqs>>

Next == ListPage \/ FetchRun \/ Rerun

Spec == Init /\ [][Next]_vars

\* every request gets its response: the sequential program always takes its next step
FairSpec == Spec /\ WF_vars(Next)

(* ------------------------------ properties ------------------------------ *)
ListDone == pc # "list"
ListOK == ListDone /\ listErr = Nil
Names(rs) == [i \in 1..Len(rs) |-> rs[i].Name]
IsRuns(e) == e.op = "runs"
Fetches == SelectSeq(log, IsRuns)
\* number of loop iterations of main that have issued their fetch
Fetched ==
    IF pc = "list" \/ ~ListOK THEN 0
    ELSE IF pc = "fetch" THEN idx - 1
    ELSE IF pc = "rerun" THEN idx
    ELSE Len(repos)

\* C1 as stated: a successful listing of R repositories takes exactly
\* ceil((R+1)/100) page requests and returns the R repositories in API order.
C1_Original ==
    ListOK => /\ Len(listReqs) = CeilDiv(org.n + 1, PerPage)
              /\ Names(repos) = Listing(org)

\* C1 amended: a successful listing of R repositories takes exactly
\* ceil(R/100) + 1 page requests (the non-empty pages and the terminating empty
\* page) and returns exactly the R repositories in the order the API served them.
C1_PageRequests ==
    ListOK => /\ Len(listReqs) = CeilDiv(org.n, PerPage) + 1
              /\ Len(repos) = org.n
              /\ Names(repos) = Listing(org)

C1_Witness ==
    /\ ListOK
    /\ org.n > PerPage
    /\ org.n % PerPage # 0
    /\ Len(listReqs) = 3
    /\ Len(repos) = org.n

\* C2 as stated: when the page 1 response holds fewer than 100 items, page 2 is
\* never requested.
C2_Original ==
    (\E k \in 1..Len(listReqs) :
        listReqs[k].page = 1 /\ listReqs[k].ok /\ listReqs[k].n < PerPage)
    => ~(\E j \in 1..Len(listReqs) : listReqs[j].page = 2)

\* C2 amended: page 2 is requested if and only if the page 1 response was
\* successful and non-empty; an empty page 1 is followed by no page 2 request,
\* a page 1 of 1..99 items is followed by one.
C2_PageTwo ==
    /\ (\E j \in 1..Len(listReqs) : listReqs[j].page = 2)
         => (Len(listReqs) >= 1 /\ listReqs[1].page = 1 /\ listReqs[1].ok
             /\ listReqs[1].n > 0)
    /\ (Len(listReqs) >= 1 /\ listReqs[1].ok /\ listReqs[1].n > 0
        /\ ~(pc = "list" /\ Len(listReqs) = 1))
         => (Len(listReqs) >= 2 /\ listReqs[2].page = 2)
    /\ Cardinality({j \in 1..Len(listReqs) : listReqs[j].page = 2}) <= 1

C2_Witness ==
    /\ Len(listReqs) = 2
    /\ listReqs[1].ok /\ listReqs[1].n > 0 /\ listReqs[1].n < PerPage
    /\ listReqs[2].page = 2

\* C3: rerunWorkflow returns nil exactly when the received status is 201; every
\* other received status yields an error carrying that status and the body.
C3_RerunStatus ==
    (Len(log) > 0 /\ Last(log).op = "rerun") =>
        /\ (err = Nil) <=> (~resp.neterr /\ resp.status = 201)
        /\ (~resp.neterr /\ resp.status # 201) =>
              (err.kind = "http" /\ err.status = resp.status
               /\ err.body = resp.body.text)

C3_Witness ==
    /\ Len(log) > 0 /\ Last(log).op = "rerun"
    /\ ~resp.neterr /\ resp.status = 204 /\ resp.body.text = "msg"
    /\ err # Nil

\* C4: a fetch answered with an empty workflow_runs array returns an error, is
\* followed by no re-run request for that repository, and the loop goes on with
\* the next repository or ends normally after the last one.
C4_NoRuns ==
    \A k \in 1..Len(log) :
        (log[k].op = "runs" /\ log[k].outcome = "empty") =>
            /\ \A j \in 1..Len(log) : log[j].op = "rerun" => log[j].pos # log[k].pos
            /\ k < Len(log) =>
                  (log[k + 1].op = "runs" /\ log[k + 1].pos = log[k].pos + 1)
            /\ k = Len(log) =>
                  /\ err = [kind |-> "noruns", repo |-> log[k].repo]
                  /\ out = "fetch_error"
                  /\ \/ (pc = "fetch" /\ idx = log[k].pos + 1 /\ idx <= Len(repos))
                     \/ (pc = "done" /\ log[k].pos = Len(repos))

C4_Witness ==
    /\ Len(log) >= 2
    /\ log[1].op = "runs" /\ log[1].outcome = "empty"
    /\ log[2].op = "runs" /\ log[2].pos = 2 /\ log[2].outcome = "empty"
    /\ err.kind = "noruns"

\* C5: after a successful listing every repository the loop has reached got
\* exactly one latest-run fetch, for its own name, whatever the outcome of the
\* others; when main ends every repository of the list has got one.
C5_OneFetchEach ==
    LET F == Fetches
    IN  ListOK =>
          /\ Len(F) = Fetched
          /\ \A k \in 1..Len(F) : F[k].pos = k /\ F[k].repo = repos[k].Name
          /\ pc = "done" => Len(F) = Len(repos)

C5_Witness ==
    /\ pc = "done"
    /\ Len(repos) = MaxVaried
    /\ log[1].op = "runs" /\ log[1].outcome = "error"
    /\ log[Len(log)].op = "rerun" /\ log[Len(log)].pos = Len(repos)
    /\ out = "rerun_failed"

\* C6: a failed page request is the last page request; getRepositories returns
\* no repositories and an error even when earlier pages were accumulated, and
\* main ends without any fetch or re-run request.
C6_ListFailure ==
    \A k \in 1..Len(listReqs) :
        ~listReqs[k].ok =>
            /\ k = Len(listReqs)
            /\ pc = "done"
            /\ listErr # Nil
            /\ repos = <<>>
            /\ log = <<>>
            /\ out = "list_error"

C6_Witness ==
    /\ Len(listReqs) >= 2
    /\ ~Last(listReqs).ok
    /\ Len(acc) >= PerPage
    /\ pc = "done"

C8_InOrderNoRetry ==
    /\ \A k \in 1..Len(log) :
          /\ log[k].pos \in 1..Len(repos)
          /\ log[k].repo = repos[log[k].pos].Name
    /\ \A k \in 1..(Len(log) - 1) :
          \/ log[k].pos < log[k + 1].pos
          \/ /\ log[k].pos = log[k + 1].pos
             /\ log[k].op = "runs"
             /\ log[k + 1].op = "rerun"

C8_Witness ==
    /\ Len(log) >= 4
    /\ log[1].op = "runs" /\ log[1].outcome = "error"
    /\ log[2].op = "runs" /\ log[3].op = "rerun" /\ log[4].op = "runs"

\* C9: a re-run request is issued for a repository exactly when its own fetch
\* was answered with a non-empty workflow_runs array, and it carries the id of
\* the first run of that answer.
C9_RerunIffRun ==
    \A k \in 1..Len(log) :
        /\ log[k].op = "rerun" =>
              /\ k > 1
              /\ log[k - 1].op = "runs"
              /\ log[k - 1].pos = log[k].pos
              /\ log[k - 1].repo = log[k].repo
              /\ log[k - 1].outcome = "run"
              /\ log[k].id = log[k - 1].id
        /\ (log[k].op = "runs" /\ log[k].outcome = "run") =>
              IF k < Len(log) THEN log[k + 1].op = "rerun" ELSE pc = "rerun"
        /\ (log[k].op = "runs" /\ log[k].outcome # "run") =>
              IF k < Len(log) THEN log[k + 1].op = "runs" ELSE pc # "rerun"

C9_Witness ==
    /\ Len(log) >= 4
    /\ log[1].op = "runs" /\ log[1].id = 1
    /\ log[2].op = "rerun" /\ log[2].id = 1
    /\ log[3].op = "runs" /\ log[3].id = MaxRunId
    /\ log[4].op = "rerun" /\ log[4].id = MaxRunId

\* pages 1, 2, 3, ... are requested consecutively, once each
PagesConsecutive == \A k \in 1..Len(listReqs) : listReqs[k].page = k
\* the listing stops at the first empty page and never before an empty or failed one
StopsAtFirstEmpty ==
    /\ \A k \in 1..Len(listReqs) :
          (listReqs[k].ok /\ listReqs[k].n = 0) => (k = Len(listReqs) /\ ListOK)
    /\ ListOK => (Last(listReqs).ok /\ Last(listReqs).n = 0)
    /\ (pc = "list") => page = Len(listReqs) + 1
\* main ends only after the last repository of a successful listing
EndsAfterLast ==
    (pc = "done" /\ ListOK /\ Len(repos) > 0) =>
        (Len(log) > 0 /\ Last(log).pos = Len(repos))

\* C10: with every request answered, pages 1, 2, 3, ... are requested once each
\* up to the first empty (or failed) page, and the run terminates, after the
\* last repository when the listing succeeded, whatever failures occur.
C10_Terminates ==
    /\ [](PagesConsecutive /\ StopsAtFirstEmpty /\ EndsAfterLast)
    /\ <>(pc = "done")

C10_Witness ==
    /\ pc = "done"
    /\ ListOK
    /\ Len(listReqs) = 3
    /\ \E k \in 1..Len(log) : log[k].outcome = "error"
    /\ out = "rerun_failed"

====
